---- MODULE Spec2Model ----
(***************************************************************************)
(* Model of Graph.py: SensorGridVisualizer.                                *)
(*                                                                         *)
(* A reader thread (read_from_serial) opens the serial port, then reads    *)
(* lines, parses each into an 8x8 integer grid and puts it on data_queue.  *)
(* A Tk timer callback (update_plots) drains data_queue, renders every     *)
(* frame it dequeues, redraws both canvases and reschedules itself.        *)
(*                                                                         *)
(* Text is modelled as a sequence of one-character strings; a byte that is *)
(* not valid UTF-8 is the element "xFF".                                   *)
(***************************************************************************)
EXTENDS Integers, Sequences, FiniteSets, TLC

VARIABLES
    pc_p,       \* reader thread position: "open", "loop", "put", "returned", "crashed"
    line,       \* local `line` of read_from_serial: [bound, text]
    grid_data,  \* local `grid_data` of read_from_serial (NoGrid until first assigned)
    log,        \* everything printed so far, in order
    nread,      \* number of lines read from the port so far
    rx,         \* the tokens of the line most recently read (what the sender joined)
    queue,      \* self.data_queue
    enq,        \* every frame ever put on the queue, in order
    deq,        \* every frame ever taken off the queue, in order
    pc_c,       \* update_plots position: "idle", "test", "get", "render", "draw", "after",
                \* "unwind" (the finally clause, an exception in flight), "aborted"
    caller,     \* who called update_plots: "__init__" (line 77) or "mainloop" (the timer)
    pending,    \* number of update_plots callbacks scheduled with root.after
    data,       \* local `data` of update_plots
    im,         \* heatmap image self.im: [data, clim]
    ax_3d,      \* 3D axes self.ax_3d: [surfaces, zlim, title, xlabel, ylabel, zlabel]
    cyc         \* what the current (or last) update_plots call saw and did

vars == <<pc_p, line, grid_data, log, nread, rx, queue, enq, deq,
          pc_c, caller, pending, data, im, ax_3d, cyc>>

producerVars == <<pc_p, line, grid_data, log, nread, rx>>
consumerVars == <<pc_c, caller, pending, data, im, ax_3d>>

----------------------------------------------------------------------------
(* Configuration constants                                                 *)

GRID_ROWS == 8
GRID_COLS == 8

\* queue.Queue() is constructed without a maxsize: 0 means unbounded.
maxsize == 0

\* imshow(..., vmin=0, vmax=1023) and set_zlim(0, 1023)
ANALOG_MIN == 0
ANALOG_MAX == 1023

----------------------------------------------------------------------------
(* Bounds of the model                                                     *)

\* lines the port delivers in one behaviour of Spec
MaxLines == 3
\* ParseSpec feeds lines of num_expected_values - CountSlack .. + CountSlack tokens
CountSlack == 1
\* StreamSpec follows the reader while fewer than MaxQueue frames are waiting
MaxQueue == 2

----------------------------------------------------------------------------
(* Text: bytes, decoding, strip, split, int                                *)

InvalidByte == "xFF"
Whitespace == {" ", "\t", "\n", "\r"}
DigitChars == <<"0", "1", "2", "3", "4", "5", "6", "7", "8", "9">>
IsDigit(ch) == \E d \in 1..10 : DigitChars[d] = ch
DigitVal(ch) == (CHOOSE d \in 1..10 : DigitChars[d] = ch) - 1

\* bytes.decode('utf-8') raises UnicodeDecodeError on any invalid byte
Decodable(raw) == \A i \in 1..Len(raw) : raw[i] # InvalidByte

\* the part of s from its first to its last character in `solid`
Between(s, solid) ==
    IF solid = {} THEN <<>>
    ELSE SubSeq(s, CHOOSE i \in solid : \A j \in solid : i <= j,
                   CHOOSE i \in solid : \A j \in solid : i >= j)

\* str.strip(): drop the whitespace before the first and after the last
\* character that is not whitespace
Strip(s) == Between(s, {i \in 1..Len(s) : s[i] \notin Whitespace})

\* the tokens of two adjacent pieces of a string: the last token of the
\* left piece and the first token of the right piece are one token
SplitMerge(L, R) == SubSeq(L, 1, Len(L) - 1) \o << L[Len(L)] \o R[1] >> \o Tail(R)

\* str.split(','): always at least one token, empty tokens are kept
\* (computed by halves)
RECURSIVE Split(_)
Split(s) ==
    IF s = <<>> THEN << <<>> >>
    ELSE IF Len(s) = 1 THEN (IF s[1] = "," THEN << <<>>, <<>> >> ELSE << s >>)
    ELSE SplitMerge(Split(SubSeq(s, 1, Len(s) \div 2)),
                    Split(SubSeq(s, Len(s) \div 2 + 1, Len(s))))

RECURSIVE DecVal(_)
DecVal(ds) ==
    IF ds = <<>> THEN 0
    ELSE 10 * DecVal(SubSeq(ds, 1, Len(ds) - 1)) + DigitVal(ds[Len(ds)])

\* int(v): surrounding whitespace and one leading sign are accepted, then
\* one or more decimal digits; anything else raises ValueError
Unsigned(t) == IF t # <<>> /\ t[1] \in {"+", "-"} THEN Tail(t) ELSE t

AllDigits(b) == b # <<>> /\ \A i \in 1..Len(b) : IsDigit(b[i])

\* (variant: a digits-only test such as str.isdigit(), which refuses a sign)
IntOkDigitsOnly(tok) == AllDigits(Strip(tok))

IntOk(tok) == AllDigits(Unsigned(Strip(tok)))

Signed(t) == IF t[1] = "-" THEN 0 - DecVal(Unsigned(t)) ELSE DecVal(Unsigned(t))

IntVal(tok) == Signed(Strip(tok))

----------------------------------------------------------------------------
(* Grids                                                                   *)

Rows == 0..(GRID_ROWS - 1)
Cols == 0..(GRID_COLS - 1)

NoGrid == <<>>

\* np.zeros((GRID_ROWS, GRID_COLS))
Zeros == [r \in Rows |-> [c \in Cols |-> 0]]

num_expected_values == GRID_ROWS * GRID_COLS

\* (variant: Fortran order, the first GRID_ROWS values forming column 0)
ReshapeColumnMajor(values) ==
    [r \in Rows |-> [c \in Cols |-> values[c * GRID_ROWS + r + 1]]]

\* np.array(values).reshape((GRID_ROWS, GRID_COLS)): C (row-major) order
Reshape(values) ==
    [r \in Rows |-> [c \in Cols |-> values[r * GRID_COLS + c + 1]]]

Cells(g) == {g[r][c] : r \in Rows, c \in Cols}

\* data.min(), data.max()
GridMin(g) == CHOOSE m \in Cells(g) : \A v \in Cells(g) : m <= v
GridMax(g) == CHOOSE m \in Cells(g) : \A v \in Cells(g) : m >= v

----------------------------------------------------------------------------
(* The wire: what the sender transmits for a sequence of tokens            *)

\* the tokens separated by commas (computed by halves)
RECURSIVE Join(_)
Join(toks) ==
    IF toks = <<>> THEN <<>>
    ELSE IF Len(toks) = 1 THEN toks[1]
    ELSE LET m == Len(toks) \div 2
         IN  Join(SubSeq(toks, 1, m)) \o <<",">> \o Join(SubSeq(toks, m + 1, Len(toks)))

\* "val1,val2,val3,...,valN\n"
WireLine(toks) == Join(toks) \o <<"\n">>

----------------------------------------------------------------------------
(* Input lines                                                             *)

Tok0 == <<"0">>
Tok7 == <<"7">>
Tok12 == <<"1", "2">>
Tok1023 == <<"1", "0", "2", "3">>
TokNeg3 == <<"-", "3">>
TokPlus4 == <<"+", "4">>
TokSp5 == <<" ", "5">>
TokX == <<"x">>
TokEmpty == <<>>
TokFloat == <<"1", ".", "5">>
TokMixed == <<"1", "x">>
TokSign == <<"-">>
TokBad == <<InvalidByte>>

IntTokens == {Tok0, Tok7, Tok12, Tok1023, TokNeg3, TokPlus4, TokSp5}
JunkTokens == {TokX, TokEmpty, TokFloat, TokMixed, TokSign}
AllTokens == IntTokens \cup JunkTokens \cup {TokBad}

\* n tokens, all `base` except token number p, which is t
Filled(n, base, p, t) == [i \in 1..n |-> IF i = p THEN t ELSE base]

FrameA == Filled(num_expected_values, Tok7, 1, Tok1023)
FrameB == Filled(num_expected_values, Tok12, num_expected_values, TokNeg3)
FrameC == Filled(num_expected_values, Tok0, GRID_COLS + 2, TokSp5)
ShortLine == Filled(num_expected_values - 1, Tok7, 1, Tok12)
NonIntLine == Filled(num_expected_values, Tok7, 3, TokX)
LongLine == Filled(num_expected_values + 1, Tok7, 1, Tok0)
UndecodableLine == Filled(num_expected_values, Tok7, 2, TokBad)

\* the lines the port may deliver under Spec
Lines == {FrameA, FrameB, FrameC, ShortLine, LongLine, NonIntLine, UndecodableLine}

ParseCounts ==
    {0, 1} \cup
    ((num_expected_values - CountSlack)..(num_expected_values + CountSlack))

\* the lines the port may deliver under ParseSpec
ParseLines ==
    {Filled(n, base, p, t) :
        n \in ParseCounts, base \in {Tok0, Tok7}, p \in 1..(num_expected_values + CountSlack),
        t \in AllTokens}

----------------------------------------------------------------------------
(* Initial state: __init__ has built the plots and started the reader      *)
(* thread, and is about to make its own first call of update_plots.        *)

Unbound == [bound |-> FALSE, text |-> <<>>]

InitIm == [data |-> Zeros, clim |-> <<ANALOG_MIN, ANALOG_MAX>>]

\* the title, z-limit and labels set on a 3D axis
Decorated(surfaces) ==
    [surfaces |-> surfaces,
     zlim     |-> <<ANALOG_MIN, ANALOG_MAX>>,
     title    |-> "3D Pressure Surface",
     xlabel   |-> "Sensor Column",
     ylabel   |-> "Sensor Row",
     zlabel   |-> "Pressure Reading"]

\* Axes3D.clear(): no artists, default limits, no title or labels
Cleared ==
    [surfaces |-> <<>>,
     zlim     |-> <<0, 1>>,
     title    |-> "",
     xlabel   |-> "",
     ylabel   |-> "",
     zlabel   |-> ""]

InitAx3d == Decorated(<<>>)

CycleStart(q, i, a) ==
    [queue0 |-> q, im0 |-> i, ax0 |-> a, put |-> FALSE, gets |-> 0, draws |-> 0]

Init ==
    /\ pc_p = "open"
    /\ line = Unbound
    /\ grid_data = NoGrid
    /\ log = <<>>
    /\ nread = 0
    /\ rx = <<>>
    /\ queue = <<>>
    /\ enq = <<>>
    /\ deq = <<>>
    /\ pc_c = "test"
    /\ caller = "__init__"
    /\ pending = 0
    /\ data = NoGrid
    /\ im = InitIm
    /\ ax_3d = InitAx3d
    /\ cyc = CycleStart(<<>>, InitIm, InitAx3d)

----------------------------------------------------------------------------
(* Reader thread: read_from_serial                                         *)

\* a printed message; `at` is the number of the line it is about
\* (the count warning names n and num_expected_values; the parse error
\* names the text of `line`)
Diag(kind, at, n, text) ==
    [kind |-> kind, at |-> at, n |-> n, text |-> text,
     expected |-> IF kind = "count_warning" THEN num_expected_values ELSE 0]

\* serial.Serial(...) succeeds
OpenOk ==
    /\ pc_p = "open"
    /\ log' = Append(log, Diag("connected", 0, 0, <<>>))
    /\ pc_p' = "loop"
    /\ UNCHANGED <<line, grid_data, nread, rx, queue, enq, deq, consumerVars, cyc>>

\* (variant: a handler that tries to open the port again)
AfterOpenFailureRetry == "open"

\* where the thread goes after the SerialException handler (`return`)
AfterOpenFailure == "returned"

\* serial.Serial(...) raises SerialException
OpenFail ==
    /\ pc_p = "open"
    /\ log' = Append(log, Diag("open_error", 0, 0, <<>>))
    /\ pc_p' = AfterOpenFailure
    /\ UNCHANGED <<line, grid_data, nread, rx, queue, enq, deq, consumerVars, cyc>>

\* (variant: a test that lets extra values through)
CountAtLeast(values) == Len(values) >= num_expected_values

\* len(values) == num_expected_values
CountOk(values) == Len(values) = num_expected_values

\* One pass of the loop body with a line waiting: readline, decode, strip,
\* split, int, count check, reshape; ends at the put or back at the loop.
ReadLine(toks) ==
    /\ pc_p = "loop"
    /\ nread' = nread + 1
    /\ rx' = toks
    /\ \E raw \in {WireLine(toks)} :
       IF ~Decodable(raw)
       THEN \* UnicodeDecodeError: `line` is not assigned; the handler reads it
            /\ line' = line
            /\ grid_data' = grid_data
            /\ IF line.bound
               THEN /\ pc_p' = "loop"
                    /\ log' = Append(log, Diag("parse_error", nread + 1, 0, line.text))
               ELSE \* UnboundLocalError inside the handler ends the thread
                    /\ pc_p' = "crashed"
                    /\ log' = log
       ELSE \E text \in {Strip(raw)} : \E tokens \in {Split(text)} :
            /\ line' = [bound |-> TRUE, text |-> text]
            /\ IF \E i \in 1..Len(tokens) : ~IntOk(tokens[i])
               THEN \* ValueError from int()
                    /\ pc_p' = "loop"
                    /\ grid_data' = grid_data
                    /\ log' = Append(log, Diag("parse_error", nread + 1, 0, text))
               ELSE \E values \in {[i \in 1..Len(tokens) |-> IntVal(tokens[i])]} :
                    IF CountOk(values)
                    THEN /\ pc_p' = "put"
                         /\ grid_data' = Reshape(values)
                         /\ log' = log
                    ELSE /\ pc_p' = "loop"
                         /\ grid_data' = grid_data
                         /\ log' = Append(log, Diag("count_warning", nread + 1, Len(values), <<>>))
    /\ UNCHANGED <<queue, enq, deq, consumerVars, cyc>>

\* (variant: a queue built with maxsize=1)
PutReadyOneSlot(q) == Len(q) < 1

\* Queue.put blocks only while maxsize > 0 and the queue holds maxsize items
PutReady(q) == maxsize <= 0 \/ Len(q) < maxsize

\* (variant: a put on the left end)
QueuePutFront(q, item) == <<item>> \o q

\* Queue._put: append on the right
QueuePut(q, item) == Append(q, item)

\* self.data_queue.put(grid_data)
Put ==
    /\ pc_p = "put"
    /\ PutReady(queue)
    /\ queue' = QueuePut(queue, grid_data)
    /\ enq' = Append(enq, grid_data)
    /\ cyc' = [cyc EXCEPT !.put = TRUE]
    /\ pc_p' = "loop"
    /\ UNCHANGED <<line, grid_data, log, nread, rx, deq, consumerVars>>

----------------------------------------------------------------------------
(* Timer callback: update_plots                                            *)

\* the Tk event loop runs a scheduled callback
Timer ==
    /\ pc_c = "idle"
    /\ pending > 0
    /\ pending' = pending - 1
    /\ pc_c' = "test"
    /\ caller' = "mainloop"
    /\ cyc' = CycleStart(queue, im, ax_3d)
    /\ UNCHANGED <<producerVars, queue, enq, deq, data, im, ax_3d>>

\* (variant: `while True:`, leaving the loop through queue.Empty)
LoopAlways(q) == TRUE

\* not self.data_queue.empty()
NotEmpty(q) == q # <<>>

\* while not self.data_queue.empty()
WhileTest ==
    /\ pc_c = "test"
    /\ pc_c' = IF NotEmpty(queue) THEN "get" ELSE "draw"
    /\ UNCHANGED <<producerVars, queue, enq, deq, caller, pending, data, im, ax_3d, cyc>>

\* (variant: a LifoQueue, which hands out the newest item)
QueueGetNewest(q) == [item |-> q[Len(q)], rest |-> SubSeq(q, 1, Len(q) - 1)]

\* Queue._get: popleft
QueueGet(q) == [item |-> Head(q), rest |-> Tail(q)]

\* data = self.data_queue.get_nowait(); raises queue.Empty on an empty queue
GetNowait ==
    /\ pc_c = "get"
    /\ IF queue # <<>>
       THEN /\ data' = QueueGet(queue).item
            /\ queue' = QueueGet(queue).rest
            /\ deq' = Append(deq, QueueGet(queue).item)
            /\ cyc' = [cyc EXCEPT !.gets = @ + 1]
            /\ pc_c' = "render"
       ELSE \* except queue.Empty: pass
            /\ pc_c' = "after"
            /\ UNCHANGED <<data, queue, deq, cyc>>
    /\ UNCHANGED <<producerVars, enq, caller, pending, im, ax_3d>>

\* (variant: set_data without the set_clim call)
SetHeatmapKeepRange(d) == [data |-> d, clim |-> <<ANALOG_MIN, ANALOG_MAX>>]

\* self.im.set_data(data); self.im.set_clim(vmin=data.min(), vmax=data.max())
SetHeatmap(d) == [data |-> d, clim |-> <<GridMin(d), GridMax(d)>>]

\* (variant: clear and plot_surface without setting the limits and labels again)
PlotSurfaceBare(d) == [Cleared EXCEPT !.surfaces = Append(@, d)]

\* ax_3d.clear(); plot_surface(X, Y, data); set_zlim; set_title; set_*label
PlotSurface(d) == Decorated(Append(Cleared.surfaces, d))

\* the body of the while loop after the get
Render ==
    /\ pc_c = "render"
    /\ im' = SetHeatmap(data)
    /\ ax_3d' = PlotSurface(data)
    /\ pc_c' = "test"
    /\ UNCHANGED <<producerVars, queue, enq, deq, caller, pending, data, cyc>>

\* self.heatmap_canvas.draw(); self.surface_canvas.draw()
Draw ==
    /\ pc_c = "draw"
    /\ cyc' = [cyc EXCEPT !.draws = @ + 1]
    /\ pc_c' = "after"
    /\ UNCHANGED <<producerVars, queue, enq, deq, caller, pending, data, im, ax_3d>>

\* finally: self.root.after(100, self.update_plots)
After ==
    /\ pc_c = "after"
    /\ pending' = pending + 1
    /\ pc_c' = "idle"
    /\ UNCHANGED <<producerVars, queue, enq, deq, caller, data, im, ax_3d, cyc>>

----------------------------------------------------------------------------
(* Errors raised by the plotting calls of update_plots. Nothing in the     *)
(* loop body or the redraw catches them: the only handler is for           *)
(* queue.Empty, so they leave through the finally clause.                  *)

\* set_data, set_clim, clear or plot_surface raises: either before the
\* heatmap is touched, or with the heatmap updated and the axis cleared
RenderError ==
    /\ pc_c = "render"
    /\ \/ UNCHANGED <<im, ax_3d>>
       \/ im' = SetHeatmap(data) /\ ax_3d' = Cleared
    /\ pc_c' = "unwind"
    /\ UNCHANGED <<producerVars, queue, enq, deq, caller, pending, data, cyc>>

\* heatmap_canvas.draw() or surface_canvas.draw() raises
DrawError ==
    /\ pc_c = "draw"
    /\ pc_c' = "unwind"
    /\ UNCHANGED <<producerVars, queue, enq, deq, caller, pending, data, im, ax_3d, cyc>>

\* (variant: root.after placed after the try statement, skipped by an error)
UnwindSkips(p) == p

\* the finally clause runs on the way out: self.root.after(100, ...)
UnwindSchedules(p) == p + 1

\* finally with the exception in flight, then the exception leaves
\* update_plots: Tk reports it when the timer made the call and goes on;
\* when __init__ made the call it leaves __init__ and the script, so
\* root.mainloop() is never entered and the process ends.
Unwind ==
    /\ pc_c = "unwind"
    /\ pending' = UnwindSchedules(pending)
    /\ pc_c' = IF caller = "__init__" THEN "aborted" ELSE "idle"
    /\ UNCHANGED <<producerVars, queue, enq, deq, caller, data, im, ax_3d, cyc>>

----------------------------------------------------------------------------
(* Specifications                                                          *)

Read == \E toks \in Lines : nread < MaxLines /\ ReadLine(toks)

ParseRead == \E toks \in ParseLines : nread = 0 /\ ReadLine(toks)

Producer == OpenOk \/ OpenFail \/ Read \/ Put

Consumer == Timer \/ WhileTest \/ GetNowait \/ Render \/ Draw \/ After

Next ==
    \/ OpenOk
    \/ OpenFail
    \/ Read
    \/ Put
    \/ Timer
    \/ WhileTest
    \/ GetNowait
    \/ Render
    \/ Draw
    \/ After

Spec == Init /\ [][Next]_vars

\* Spec with a main loop that keeps running: the timer keeps firing and a
\* call of update_plots that can take a step eventually takes it. Nothing is
\* assumed of the reader thread, which reads at most MaxLines lines.
LiveSpec == Spec /\ WF_vars(Consumer)

ParseNext ==
    \/ OpenOk
    \/ OpenFail
    \/ ParseRead
    \/ Put

ParseSpec == Init /\ [][ParseNext]_vars

\* the lines the port may deliver under FaultSpec
FaultLines == {FrameA, FrameB, ShortLine}

FaultRead == \E toks \in FaultLines : nread < MaxLines /\ ReadLine(toks)

\* the process lives until the main thread leaves the script
Alive == pc_c # "aborted"

\* every step of the program when the plotting calls may raise; the reader
\* is a daemon thread and ends with the process
FaultNext ==
    \/ Alive /\ OpenOk
    \/ Alive /\ OpenFail
    \/ Alive /\ FaultRead
    \/ Alive /\ Put
    \/ Timer
    \/ WhileTest
    \/ GetNowait
    \/ Render
    \/ RenderError
    \/ Draw
    \/ DrawError
    \/ After
    \/ Unwind

FaultSpec == Init /\ [][FaultNext]_vars

\* the lines the port may deliver under StreamSpec: an endless stream of one
\* frame (whether a cycle ends does not depend on the values)
StreamLines == {FrameA}

StreamRead ==
    \E toks \in StreamLines :
        nread < MaxLines /\ Len(queue) < MaxQueue /\ ReadLine(toks)

\* The records kept about the run (the count of lines read, the frames
\* enqueued and dequeued, the count of gets in the cycle) start afresh; the
\* program's own state is untouched. This lets the stream go on without end.
Forget ==
    /\ nread > 0 \/ deq # <<>>
    /\ nread' = 0
    /\ enq' = queue
    /\ deq' = <<>>
    /\ cyc' = [cyc EXCEPT !.gets = 0]
    /\ UNCHANGED <<pc_p, line, grid_data, log, rx, queue, consumerVars>>

StreamNext ==
    \/ OpenOk
    \/ OpenFail
    \/ StreamRead
    \/ Put
    \/ Timer
    \/ WhileTest
    \/ GetNowait
    \/ Render
    \/ Draw
    \/ After
    \/ Forget

\* the Tk main loop keeps running update_plots: a step of it that stays
\* possible is eventually taken
StreamSpec == Init /\ [][StreamNext]_vars /\ WF_vars(Consumer)

----------------------------------------------------------------------------
(* Properties                                                              *)

Last(q) == q[Len(q)]

\* the sender's view of a line: its tokens, and the value of each integer token

ValidTokens(toks) ==
    /\ Len(toks) = num_expected_values
    /\ \A i \in 1..Len(toks) : toks[i] \in IntTokens

DecodableTokens(toks) == \A i \in 1..Len(toks) : toks[i] # TokBad

TokenValue(tok) ==
    CASE tok = Tok0 -> 0
      [] tok = Tok7 -> 7
      [] tok = Tok12 -> 12
      [] tok = Tok1023 -> 1023
      [] tok = TokNeg3 -> 0 - 3
      [] tok = TokPlus4 -> 4
      [] tok = TokSp5 -> 5

RowMajor(g, toks) ==
    \A r \in Rows : \A c \in Cols : g[r][c] = TokenValue(toks[r * GRID_COLS + c + 1])

\* C1: a line is enqueued if and only if it splits into exactly
\* GRID_ROWS*GRID_COLS tokens that are all integers; for every other line
\* (too few or too many tokens, a non-integer token, an empty line, an
\* undecodable line) nothing is enqueued.
C1_EnqueuedIffValid ==
    nread > 0 =>
        IF ValidTokens(rx)
        THEN (pc_p = "put" /\ enq = <<>>) \/ (pc_p = "loop" /\ Len(enq) = 1)
        ELSE pc_p # "put" /\ enq = <<>> /\ queue = <<>>

C1_Witness == nread = 1 /\ ValidTokens(rx) /\ Len(enq) = 1 /\ queue = enq

\* C6: the grid built from a valid line holds token number r*GRID_COLS + c
\* (counting from 0) at row r, column c.
C6_RowMajorReshape ==
    /\ pc_p = "put" => RowMajor(grid_data, rx)
    /\ enq # <<>> => RowMajor(enq[1], rx) /\ queue = enq

C6_Witness ==
    /\ enq # <<>>
    /\ \E r \in Rows : \E c \in Cols : r # c /\ enq[1][r][c] # enq[1][c][r]

\* C2: a consumer cycle that starts with F1..Fn queued, during and after
\* which the producer puts nothing, ends with the queue empty and the
\* heatmap and the surface both showing Fn.
C2_DrainCoalesces ==
    (pc_c \in {"after", "idle"} /\ ~cyc.put /\ cyc.queue0 # <<>>) =>
        /\ queue = <<>>
        /\ im.data = Last(cyc.queue0)
        /\ ax_3d.surfaces = << Last(cyc.queue0) >>

C2_Witness ==
    /\ pc_c = "after"
    /\ ~cyc.put
    /\ Len(cyc.queue0) = 3
    /\ cyc.queue0[1] # cyc.queue0[3]
    /\ cyc.queue0[2] # cyc.queue0[3]
    /\ im.data = cyc.queue0[3]

\* C3: the frames dequeued so far, followed by the frames still queued, are
\* exactly the frames enqueued so far, in order: frames leave in arrival
\* order, none twice, none skipped or lost.
C3_FifoHandOff == enq = deq \o queue

C3_Witness ==
    /\ Len(deq) >= 2
    /\ deq[1] # deq[2]
    /\ queue # <<>>
    /\ cyc.put
    /\ pc_c = "render"

\* C4: an undecodable line never ends the reader: wherever it comes in the
\* stream, it is dropped, a diagnostic is logged for it and the reader is
\* back in its loop.
C4_DecodeFailureNotFatal ==
    (nread > 0 /\ ~DecodableTokens(rx)) =>
        /\ pc_p = "loop"
        /\ log # <<>>
        /\ Last(log).at = nread

\* C5: reading a malformed line (wrong token count or a non-integer token)
\* leaves the queue as it was and the reader in its loop, and a well-formed
\* line read at any later time is parsed to the same grid as ever and
\* appended to the queue.
C5_MalformedLineDropped ==
    [][ /\ (nread' = nread + 1 /\ DecodableTokens(rx') /\ ~ValidTokens(rx')) =>
            (queue' = queue /\ enq' = enq /\ pc_p' = "loop" /\ grid_data' = grid_data)
        /\ (nread' = nread + 1 /\ ValidTokens(rx')) =>
            (pc_p' = "put" /\ RowMajor(grid_data', rx') /\ queue' = queue)
        /\ (pc_p = "put" /\ pc_p' # "put") =>
            (pc_p' = "loop" /\ queue' = Append(queue, grid_data))
      ]_vars

C5_Witness ==
    /\ nread >= 2
    /\ log # <<>>
    /\ Last(log).at = nread - 1
    /\ Last(log).kind \in {"count_warning", "parse_error"}
    /\ ValidTokens(rx)
    /\ pc_p = "loop"
    /\ queue # <<>>
    /\ Last(queue) = grid_data

OpenFailed == \E i \in 1..Len(log) : log[i].kind = "open_error"

\* C7: once opening the port has failed the reader has returned for good
\* (one diagnostic, no retry, no line read), nothing is ever enqueued, the
\* heatmap and the surface keep their initial state, and the consumer keeps
\* running and being rescheduled.
C7_OpenFailureStarves ==
    OpenFailed =>
        /\ pc_p = "returned"
        /\ Len(log) = 1
        /\ nread = 0
        /\ queue = <<>>
        /\ enq = <<>>
        /\ im = InitIm
        /\ ax_3d = InitAx3d
        /\ pending = (IF pc_c = "idle" THEN 1 ELSE 0)
        /\ ENABLED Consumer

C7_Witness == OpenFailed /\ pc_c = "idle" /\ cyc.draws = 1 /\ cyc.queue0 = <<>>

\* C8: a consumer cycle that found the queue empty has, when it ends,
\* changed nothing on the display, redrawn nothing and scheduled the next
\* cycle.
C8_EmptyCycleOnlyReschedules ==
    (pc_c = "idle" /\ cyc.queue0 = <<>> /\ cyc.gets = 0) =>
        /\ im = cyc.im0
        /\ ax_3d = cyc.ax0
        /\ pending = 1
        /\ cyc.draws = 0

\* C9: the put is enabled whenever the reader is at it, whatever the length
\* of the queue and wherever the consumer is; and the consumer, once in a
\* cycle, always has a step of its own to take.
C9_NeverWaitsOnQueue ==
    /\ pc_p = "put" => ENABLED Put
    /\ pc_c # "idle" => ENABLED Consumer

C9_Witness == pc_p = "put" /\ Len(queue) >= 2 /\ pc_c = "idle"

IsMinOf(m, g) == m \in Cells(g) /\ \A v \in Cells(g) : m <= v
IsMaxOf(m, g) == m \in Cells(g) /\ \A v \in Cells(g) : m >= v

\* C10: until a frame is rendered the color range is (0, 1023); from then
\* on it is the minimum and maximum cell of the frame the heatmap shows,
\* which at the end of a cycle that dequeued a frame is the last frame
\* dequeued.
C10_ColorRangeAutoScale ==
    /\ ax_3d.surfaces = <<>> => im.clim = <<ANALOG_MIN, ANALOG_MAX>>
    /\ ax_3d.surfaces # <<>> =>
          IsMinOf(im.clim[1], im.data) /\ IsMaxOf(im.clim[2], im.data)
    /\ (pc_c \in {"after", "idle"} /\ cyc.gets > 0) => im.data = Last(deq)

C10_Witness ==
    /\ pc_c = "after"
    /\ cyc.gets >= 2
    /\ im.clim = <<0 - 3, 12>>

\* the tokens Python's split finds in what the sender joined: an empty line
\* is one empty token
SentTokens(toks) == IF toks = <<>> THEN << TokEmpty >> ELSE toks

CountWarningFor(toks) ==
    /\ pc_p = "loop"
    /\ enq = <<>>
    /\ log # <<>>
    /\ Last(log).kind = "count_warning"
    /\ Last(log).at = nread
    /\ Last(log).n = Len(SentTokens(toks))
    /\ Last(log).expected = num_expected_values

\* C11 as stated: every decoded line whose number of tokens is not
\* GRID_ROWS*GRID_COLS is dropped with the count warning naming that number
\* and the expected one, also when one of its tokens is not an integer.
C11_CountWarningOnEveryMismatch ==
    (nread > 0 /\ DecodableTokens(rx) /\ Len(SentTokens(rx)) # num_expected_values) =>
        CountWarningFor(rx)

\* C11 as amended: a line whose tokens are all integers and whose number of
\* tokens is not GRID_ROWS*GRID_COLS is dropped with the count warning
\* naming both numbers; a decoded line with a token that is not an integer
\* is dropped with the parse error naming the line, whatever its count.
C11_CountWarningWhenAllIntegers ==
    (nread > 0 /\ DecodableTokens(rx)) =>
        \E sent \in {SentTokens(rx)} :
            IF \A i \in 1..Len(sent) : sent[i] \in IntTokens
            THEN Len(sent) # num_expected_values => CountWarningFor(rx)
            ELSE /\ pc_p = "loop"
                 /\ enq = <<>>
                 /\ log # <<>>
                 /\ Last(log).kind = "parse_error"
                 /\ Last(log).at = nread
                 /\ Last(log).text = line.text
                 /\ line.text = Strip(WireLine(rx))

C11_Witness ==
    /\ nread = 1
    /\ Len(rx) = num_expected_values + 1
    /\ \A i \in 1..Len(rx) : rx[i] \in IntTokens
    /\ CountWarningFor(rx)

\* C12: at initialisation and at the end of every consumer cycle (indeed
\* whenever update_plots is between two statements of the model) the
\* surface axis has z-limits (0, 1023), its title and its three labels,
\* although every render starts from the cleared axis.
C12_SurfaceAxisFixed ==
    /\ ax_3d.zlim = <<ANALOG_MIN, ANALOG_MAX>>
    /\ ax_3d.title = "3D Pressure Surface"
    /\ ax_3d.xlabel = "Sensor Column"
    /\ ax_3d.ylabel = "Sensor Row"
    /\ ax_3d.zlabel = "Pressure Reading"
    /\ Len(ax_3d.surfaces) <= 1

C12_Witness ==
    /\ pc_c = "idle"
    /\ cyc.gets >= 2
    /\ ax_3d.surfaces = << data >>
    /\ cyc.ax0.surfaces # <<>>
    /\ cyc.ax0.surfaces # ax_3d.surfaces

\* C13: whenever the consumer is at get_nowait the queue holds a frame, in
\* every interleaving with the reader (which only ever adds frames), so the
\* queue.Empty handler is never entered.
C13_GetNeverEmpty == pc_c = "get" => queue # <<>>

C13_Witness ==
    /\ pc_c = "get"
    /\ cyc.put
    /\ cyc.queue0 = <<>>
    /\ Len(queue) = 1
    /\ pc_p = "put"

Running == IF pc_c \in {"idle", "aborted"} THEN 0 ELSE 1

\* C14: the scheduled callbacks and the running call of update_plots are
\* always exactly one, whether the calls return normally or an error raised
\* by a plotting call leaves through the finally clause: every call
\* schedules exactly one next call.
C14_OnePendingOrRunning == pending + Running = 1

C14_Witness ==
    /\ pc_c = "idle"
    /\ pending = 1
    /\ caller = "mainloop"
    /\ cyc.gets = 1
    /\ cyc.draws = 0
    /\ queue # <<>>

InDrain == pc_c \in {"test", "get", "render"}

\* C15: every consumer cycle, once started, finds the queue empty and reaches
\* the redraw, whatever the reader does meanwhile.
C15_EveryCycleTerminates == InDrain ~> (pc_c = "draw")

\* What the loop does guarantee: a cycle that never reaches the redraw is one
\* during which the reader is at its put again and again without end.
CycleTerminatesUnlessFedForever ==
    (InDrain ~> (pc_c = "draw")) \/ []<>(pc_p = "put")

\* a cycle that ended after dequeuing more frames than were queued at its start
DrainedLateFrames ==
    /\ pc_c = "draw"
    /\ cyc.put
    /\ cyc.gets > Len(cyc.queue0)
    /\ cyc.queue0 # <<>>
    /\ queue = <<>>

\* both plots hold the frame f: the heatmap image's array and the one surface
\* on the 3D axis
Shows(f) == im.data = f /\ ax_3d.surfaces = << f >>

\* C16: once the reader has enqueued its last frame, the queue eventually is
\* empty with the heatmap and the 3D surface both showing that frame, and it
\* stays so in every later state.
C16_LatestFrameEventuallyShown ==
    <>[](enq # <<>> => (queue = <<>> /\ Shows(Last(enq))))

C16_Witness ==
    /\ pc_c = "idle"
    /\ Len(enq) >= 2
    /\ enq[1] # Last(enq)
    /\ queue = <<>>
    /\ Shows(Last(enq))
    /\ cyc.draws = 1

====
